---- MODULE Spec2Model ----
(***************************************************************************)
(* Model of the real-time notification path of social_media_fastapi:       *)
(* create_notification (persist, then redis publish), the /ws/{user_id}    *)
(* WebSocket handler with its redis pub/sub polling loop, the              *)
(* ConnectionManager registry and the GET /notifications read.             *)
(*                                                                         *)
(* Library behaviour the handler relies on:                                *)
(*  - redis-py PubSub.get_message() is non-blocking; it returns None when  *)
(*    nothing is pending, and otherwise the next reply of the pub/sub      *)
(*    connection.  redis_client.pubsub() is created without                *)
(*    ignore_subscribe_messages, so the first reply is the subscribe       *)
(*    confirmation {'type': 'subscribe', 'data': 1}: its data is the       *)
(*    integer number of subscribed channels, not bytes.                    *)
(*  - Starlette raises WebSocketDisconnect from receive calls; what a      *)
(*    send_text on a closed transport raises depends on the version.       *)
(*                                                                         *)
(* create_notification is an operation of its own here, called with any    *)
(* message and user id.  The Notification rows have the columns main.py     *)
(* uses (id, user_id, message); app/models.py defines no such class.        *)
(* app/utils (verify_access_token) is not among the sources: the token      *)
(* gate is modelled from its contract.                                      *)
(*                                                                         *)
(* The HTTP handlers of app/main.py (register, login, users/me, posts,       *)
(* comments, likes, follows, the admin delete) act on the tables of         *)
(* app/models.py.  SpecHttp runs them with bearer tokens of which only      *)
(* whether they verify matters; SpecSession runs login and users/me with    *)
(* tokens that carry an expiry against a clock; SpecManager calls the       *)
(* ConnectionManager directly.                                              *)
(*                                                                         *)
(* Steps of different handlers and requests interleave freely, as they do  *)
(* across worker processes and threadpool threads; the schedules of one    *)
(* event loop, on which the iterations of a polling handler run back to    *)
(* back, are among them.                                                    *)
(***************************************************************************)
EXTENDS Integers, Sequences, FiniteSets, TLC

\* ---------------------------------------------------------------- bounds
MaxConns == 2
MaxNotifs == 2
MaxCalls == 2
\* Capacity of a subscriber's queue that the queue claim is checked for: the
\* capacity N of the design (64 by default), scaled to the model.
QueueCapacity == 1
MaxLikes == 2
MaxTime == 2
MaxIssued == 2
\* Lifetime of a token, in ticks of the clock (30 minutes by default).
TokenTTL == 1

Conns == 1..MaxConns
UserIds == {1, 2}
Msgs == {"m1", "m2"}
Emails == {"alice", "bob"}
\* Inputs of the registration, the login and the post handlers.
RegEmails == Emails \cup {"carol"}
Usernames == {"al", "bo", "ca"}
Passwords == {"pw1", "pw2"}
\* Ids the sequences of the posts and the comments tables hand out, number
\* of rows the followers table takes, and like_post requests under way at
\* one time.
PostIds == {1}
CommentIds == {1}
FollowRows == {1}
Reqs == {1, 2}
\* NULL of a foreign key column
Null == 0

None == "None"

VARIABLES
    users,               \* rows of the users table
    notifications,       \* rows of the notifications table, in insertion order
    published,           \* log of the redis publishes that went through
    appended,            \* log of the create_notification calls whose commit succeeded
    last,                \* outcome of the request served in the last step
    active_connections,  \* ConnectionManager.active_connections
    pc,                  \* position of each websocket_endpoint coroutine
    ws_user_id,          \* user_id path parameter of each websocket_endpoint call
    inbox,               \* replies pending on each handler's pubsub connection
    sent,                \* texts written to each websocket
    ws_closed,           \* the websocket is closed: by its client, or by the server
                         \* once the handler was left
    mgr_error,           \* exception raised by the last ConnectionManager.disconnect
    removals,            \* how often each websocket was removed from the registry
    deregs,              \* how often disconnect was called for each websocket
    posts,               \* rows of the posts table
    post_seq,            \* last value of the posts.id sequence
    comments,            \* rows of the comments table
    likes,               \* rows of the likes table
    followers,           \* rows of the followers table
    like_req,            \* like_post requests between their query and their insert
    now,                 \* the clock the token codec reads
    issued               \* the tokens login_user has handed out, each with the
                         \* id of the user who logged in

\* The tables and requests of the HTTP handlers other than the notification
\* ones, and the state of the sessions.
http_vars == <<posts, post_seq, comments, likes, followers, like_req>>
session_vars == <<now, issued>>

vars == <<users, notifications, published, appended, last,
          active_connections, pc, ws_user_id, inbox, sent, ws_closed,
          mgr_error, removals, deregs, http_vars, session_vars>>

\* ---------------------------------------------------------------- helpers
Range(s) == {s[i] : i \in DOMAIN s}

RECURSIVE IndexOf(_, _, _)
IndexOf(s, x, i) ==
    IF i > Len(s) THEN 0
    ELSE IF s[i] = x THEN i ELSE IndexOf(s, x, i + 1)

RemoveAt(s, i) == [j \in 1..(Len(s) - 1) |-> IF j < i THEN s[j] ELSE s[j + 1]]

\* Variant: the channel name leaves the user id out.
Channel_shared(user_id) == 1

\* f"user_{user_id}_notifications": one channel per user id
Channel(user_id) == user_id
NoChannel == 0

\* Outcome of the request served in the last step; NoOutcome after a step
\* that served none.
Outcome(op, status) == [op |-> op, status |-> status]
NoOutcome == Outcome(None, None)

\* ------------------------------------------------------------ token gate
\* app.utils.verify_access_token: the payload of a token whose signature
\* verifies and which has not expired, else None.  The payload is
\* represented by its "sub" entry.
\* Tokens are issued by login for the email of an existing user, and no
\* operation removes a user; ok: the signature verifies and the token has
\* not expired.
Tokens == [sub : Emails, ok : BOOLEAN]
NoToken == [sub |-> None, ok |-> FALSE]
\* What a client may present with a websocket upgrade: nothing, a token that
\* does not verify, or a token that verifies.
WsTokens == {NoToken} \cup Tokens

verify_access_token(token) ==
    IF token.ok THEN token.sub ELSE None

UserByEmail(email) == {u \in users : u.email = email}

\* app.utils.hash_password and verify_password: the hash of a password, and
\* whether a password hashes to a stored hash.
hash_password(password) == <<"hashed", password>>
verify_password(password, hashed_password) ==
    hashed_password = hash_password(password)

\* ------------------------------------------------------------ redis pub/sub
SubscribeReply == [type |-> "subscribe", data |-> [py |-> "int", v |-> "1"]]
PublishedReply(message) == [type |-> "message", data |-> [py |-> "bytes", v |-> message]]

\* The channel a handler's pubsub is subscribed to: from pubsub.subscribe
\* until the handler is left.
subs(c) == IF pc[c] = "polling" THEN Channel(ws_user_id[c]) ELSE NoChannel

\* Variant: the server still holds the subscription of a handler that was left.
redis_publish_to_left(box, channel, message) ==
    [c \in Conns |-> IF pc[c] # "new" /\ Channel(ws_user_id[c]) = channel
                     THEN Append(box[c], PublishedReply(message))
                     ELSE box[c]]

\* redis_client.publish(channel, message): one reply on every pubsub
\* connection subscribed to the channel at the time of the call.
redis_publish(box, channel, message) ==
    [c \in Conns |-> IF subs(c) = channel
                     THEN Append(box[c], PublishedReply(message))
                     ELSE box[c]]

\* message['data'].decode('utf-8')
decode(data) ==
    IF data.py = "bytes" THEN [raised |-> None, text |-> data.v]
    ELSE [raised |-> "AttributeError", text |-> None]

\* ------------------------------------------------------------ ConnectionManager
connect(conns, websocket) == Append(conns, websocket)

disconnect(conns, websocket) ==
    LET i == IndexOf(conns, websocket, 1)
    IN  IF i = 0
        THEN [raised |-> "ValueError", conns |-> conns]
        ELSE [raised |-> None, conns |-> RemoveAt(conns, i)]

\* ------------------------------------------------------------ initial state
\* The users table holds two registered users, the first of whom was given
\* the admin role in the database (no handler sets a role); every other table
\* is empty and no websocket is open.
Init ==
    /\ users = {[id |-> 1, username |-> "al", email |-> "alice",
                 hashed_password |-> hash_password("pw1"), role |-> "admin"],
                [id |-> 2, username |-> "bo", email |-> "bob",
                 hashed_password |-> hash_password("pw2"), role |-> "user"]}
    /\ posts = <<>>
    /\ post_seq = 0
    /\ comments = <<>>
    /\ likes = <<>>
    /\ followers = <<>>
    /\ like_req = [r \in Reqs |-> [pc |-> "idle"]]
    /\ now = 0
    /\ issued = {}
    /\ notifications = <<>>
    /\ published = <<>>
    /\ appended = <<>>
    /\ last = NoOutcome
    /\ active_connections = <<>>
    /\ pc = [c \in Conns |-> "new"]
    /\ ws_user_id = [c \in Conns |-> 0]
    /\ inbox = [c \in Conns |-> <<>>]
    /\ sent = [c \in Conns |-> <<>>]
    /\ ws_closed = [c \in Conns |-> FALSE]
    /\ mgr_error = None
    /\ removals = [c \in Conns |-> 0]
    /\ deregs = [c \in Conns |-> 0]

\* ------------------------------------------------------------ notify
\* Variant: publish first, commit afterwards.
create_notification_publish_first(message, user_id) ==
    /\ Len(notifications) < MaxNotifs
    /\ \E outcome \in {"StoreError", "PublishError", "ok"} :
        LET row == [id |-> Len(notifications) + 1,
                    user_id |-> user_id, message |-> message]
        IN  /\ last' = Outcome("notify", outcome)
            /\ IF outcome = "PublishError"
               THEN UNCHANGED <<notifications, appended, published, inbox>>
               ELSE /\ published' = Append(published,
                           [channel |-> Channel(user_id), message |-> message])
                    /\ inbox' = redis_publish(inbox, Channel(user_id), message)
                    /\ IF outcome = "ok"
                       THEN /\ notifications' = Append(notifications, row)
                            /\ appended' = Append(appended,
                                   [id |-> Len(appended) + 1,
                                    user_id |-> user_id, message |-> message])
                       ELSE UNCHANGED <<notifications, appended>>
    /\ UNCHANGED <<users, active_connections, pc, ws_user_id, sent, ws_closed,
                   mgr_error, removals, deregs>>
    /\ UNCHANGED <<http_vars, session_vars>>

\* create_notification(message, user_id, db): db.add, db.commit, db.refresh,
\* then redis_client.publish.  outcome: db.commit raises (StoreError), or
\* the commit succeeds and redis_client.publish raises (PublishError), or
\* both succeed; an exception of either leaves the function.
create_notification(message, user_id) ==
    /\ Len(notifications) < MaxNotifs
    /\ \E outcome \in {"StoreError", "PublishError", "ok"} :
        LET row == [id |-> Len(notifications) + 1,
                    user_id |-> user_id, message |-> message]
        IN  /\ last' = Outcome("notify", outcome)
            /\ IF outcome = "StoreError"
               THEN UNCHANGED <<notifications, appended, published, inbox>>
               ELSE /\ notifications' = Append(notifications, row)
                    /\ appended' = Append(appended,
                           [id |-> Len(appended) + 1,
                            user_id |-> user_id, message |-> message])
                    /\ IF outcome = "ok"
                       THEN /\ published' = Append(published,
                                   [channel |-> Channel(user_id), message |-> message])
                            /\ inbox' = redis_publish(inbox, Channel(user_id), message)
                       ELSE UNCHANGED <<published, inbox>>
    /\ UNCHANGED <<users, active_connections, pc, ws_user_id, sent, ws_closed,
                   mgr_error, removals, deregs>>
    /\ UNCHANGED <<http_vars, session_vars>>

\* ------------------------------------------------------------ listFor
\* Query.all() of a query without order_by: the SELECT has no ORDER BY, so the
\* database returns the matching rows in an order of its choice.
query_all(rows) ==
    {[i \in DOMAIN rows |-> rows[f[i]]] : f \in Permutations(DOMAIN rows)}

\* Variant: the query filters on the row id instead of the recipient.
get_notifications_response_by_id(token) ==
    LET payload == verify_access_token(token)
    IN  IF payload = None
        THEN {[status |-> "401", user_id |-> 0, body |-> <<>>]}
        ELSE LET found == UserByEmail(payload)
             IN  IF found = {}
                 THEN {[status |-> "404", user_id |-> 0, body |-> <<>>]}
                 ELSE LET user == CHOOSE u \in found : TRUE
                      IN  {[status |-> "200", user_id |-> user.id, body |-> b] :
                             b \in query_all(SelectSeq(notifications,
                                       LAMBDA n : n.id = user.id))}

\* What GET /notifications may answer to a bearer token in the current state.
get_notifications_response(token) ==
    LET payload == verify_access_token(token)
    IN  IF payload = None
        THEN {[status |-> "401", user_id |-> 0, body |-> <<>>]}
        ELSE LET found == UserByEmail(payload)
             IN  IF found = {}
                 THEN {[status |-> "404", user_id |-> 0, body |-> <<>>]}
                 ELSE LET user == CHOOSE u \in found : TRUE
                      IN  {[status |-> "200", user_id |-> user.id, body |-> b] :
                             b \in query_all(SelectSeq(notifications,
                                       LAMBDA n : n.user_id = user.id))}

\* The request reads; of its response the state keeps the status.
get_notifications(token) ==
    /\ \E r \in get_notifications_response(token) :
          last' = Outcome("list", r.status)
    /\ UNCHANGED <<users, notifications, published, appended,
                   active_connections, pc, ws_user_id, inbox, sent,
                   ws_closed, mgr_error, removals, deregs>>
    /\ UNCHANGED <<http_vars, session_vars>>

\* ------------------------------------------------------------ websocket
Exited == {"crashed", "disconnected"}

\* The handler is left: by an exception of the loop, or by return after the
\* except clause.  Its local pubsub goes out of scope with it (there is no
\* unsubscribe or close in the handler), which closes the pub/sub connection
\* with whatever replies were pending on it, and the server closes the
\* websocket of a handler that has ended.
HandlerExit(c, how) ==
    /\ pc' = [pc EXCEPT ![c] = how]
    /\ inbox' = [inbox EXCEPT ![c] = <<>>]
    /\ ws_closed' = [ws_closed EXCEPT ![c] = TRUE]

\* Variant: the handler replays what was published on its channel before it
\* subscribed.
websocket_endpoint_connect_replay(c, user_id, token) ==
    /\ pc[c] = "new"
    /\ \A b \in Conns : b < c => pc[b] # "new"
    /\ ws_user_id' = [ws_user_id EXCEPT ![c] = user_id]
    /\ active_connections' = connect(active_connections, c)
    /\ LET earlier == SelectSeq(published, LAMBDA p : p.channel = Channel(user_id))
       IN  inbox' = [inbox EXCEPT ![c] = <<SubscribeReply>> \o
                        [i \in DOMAIN earlier |-> PublishedReply(earlier[i].message)]]
    /\ pc' = [pc EXCEPT ![c] = "polling"]
    /\ last' = NoOutcome
    /\ UNCHANGED <<users, notifications, published, appended,
                   sent, ws_closed, mgr_error, removals, deregs>>
    /\ UNCHANGED <<http_vars, session_vars>>

\* websocket_endpoint up to the loop: manager.connect (accept, append),
\* redis_client.pubsub(), pubsub.subscribe.  token is what the client
\* presents with the upgrade request; the handler never reads it.  The
\* redis server is taken to be reachable when the handler subscribes.
\* Websocket objects are numbered in the order in which they are accepted.
websocket_endpoint_connect(c, user_id, token) ==
    /\ pc[c] = "new"
    /\ \A b \in Conns : b < c => pc[b] # "new"
    /\ ws_user_id' = [ws_user_id EXCEPT ![c] = user_id]
    /\ active_connections' = connect(active_connections, c)
    /\ inbox' = [inbox EXCEPT ![c] = <<SubscribeReply>>]
    /\ pc' = [pc EXCEPT ![c] = "polling"]
    /\ last' = NoOutcome
    /\ UNCHANGED <<users, notifications, published, appended,
                   sent, ws_closed, mgr_error, removals, deregs>>
    /\ UNCHANGED <<http_vars, session_vars>>

\* One iteration of the while-loop that finds a reply pending (an iteration
\* in which get_message() returns None changes nothing).
websocket_endpoint_poll(c) ==
    /\ pc[c] = "polling"
    /\ inbox[c] # <<>>
    /\ LET message == Head(inbox[c])
           d == decode(message.data)
       IN  IF d.raised # None
           THEN \* AttributeError is not WebSocketDisconnect: it leaves the handler
                /\ HandlerExit(c, "crashed")
                /\ UNCHANGED <<sent, active_connections, mgr_error, removals, deregs>>
           ELSE IF ~ws_closed[c]
           THEN /\ sent' = [sent EXCEPT ![c] = Append(sent[c], d.text)]
                /\ inbox' = [inbox EXCEPT ![c] = Tail(inbox[c])]
                /\ UNCHANGED <<pc, ws_closed, active_connections, mgr_error,
                               removals, deregs>>
           ELSE \E exc \in {"WebSocketDisconnect", "RuntimeError"} :
                IF exc = "WebSocketDisconnect"
                   THEN LET r == disconnect(active_connections, c)
                        IN  /\ active_connections' = r.conns
                            /\ mgr_error' = r.raised
                            /\ deregs' = [deregs EXCEPT ![c] = @ + 1]
                            /\ removals' = [removals EXCEPT ![c] =
                                              IF r.raised = None THEN @ + 1 ELSE @]
                            /\ HandlerExit(c, IF r.raised = None
                                              THEN "disconnected" ELSE "crashed")
                            /\ UNCHANGED sent
                   ELSE /\ HandlerExit(c, "crashed")
                        /\ UNCHANGED <<sent, active_connections, mgr_error,
                                       removals, deregs>>
    /\ last' = NoOutcome
    /\ UNCHANGED <<users, notifications, published, appended, ws_user_id>>
    /\ UNCHANGED <<http_vars, session_vars>>

\* The client closes the websocket while the handler runs.
client_close(c) ==
    /\ pc[c] = "polling"
    /\ ~ws_closed[c]
    /\ ws_closed' = [ws_closed EXCEPT ![c] = TRUE]
    /\ last' = NoOutcome
    /\ UNCHANGED <<users, notifications, published, appended,
                   active_connections, pc, ws_user_id, inbox, sent,
                   mgr_error, removals, deregs>>
    /\ UNCHANGED <<http_vars, session_vars>>

Next ==
    \/ \E m \in Msgs, u \in UserIds : create_notification(m, u)
    \/ \E t \in Tokens : get_notifications(t)
    \/ \E c \in Conns, u \in UserIds, t \in WsTokens :
            websocket_endpoint_connect(c, u, t)
    \/ \E c \in Conns : websocket_endpoint_poll(c)
    \/ \E c \in Conns : client_close(c)

Spec == Init /\ [][Next]_vars

\* The loop of a handler keeps running: no iteration waits for anything.
FairSpec == Spec /\ \A c \in Conns : WF_vars(websocket_endpoint_poll(c))

\* ------------------------------------------------------------ registry calls
\* ConnectionManager used on its own: connect and disconnect called for a
\* websocket in any order, as two paths deregistering one connection would.
manager_connect(websocket) ==
    /\ pc[websocket] = "new"
    /\ pc' = [pc EXCEPT ![websocket] = "accepted"]
    /\ active_connections' = connect(active_connections, websocket)
    /\ mgr_error' = None
    /\ UNCHANGED <<users, notifications, published, appended, last,
                   ws_user_id, inbox, sent, ws_closed, removals, deregs>>
    /\ UNCHANGED <<http_vars, session_vars>>

manager_disconnect(websocket) ==
    /\ deregs[websocket] < MaxCalls
    /\ LET r == disconnect(active_connections, websocket)
       IN  /\ active_connections' = r.conns
           /\ mgr_error' = r.raised
           /\ removals' = [removals EXCEPT ![websocket] =
                             IF r.raised = None THEN @ + 1 ELSE @]
    /\ deregs' = [deregs EXCEPT ![websocket] = @ + 1]
    /\ UNCHANGED <<users, notifications, published, appended, last,
                   pc, ws_user_id, inbox, sent, ws_closed>>
    /\ UNCHANGED <<http_vars, session_vars>>

NextManager ==
    \/ \E ws \in Conns : manager_connect(ws)
    \/ \E ws \in Conns : manager_disconnect(ws)

SpecManager == Init /\ [][NextManager]_vars

\* ------------------------------------------------------------ HTTP handlers
\* The handlers below run against an available database.  All of them but
\* like_post are taken one request at a time; like_post is taken in its two
\* database steps, the queries and the insert, so that requests overlap.

\* JSON response or HTTPException of a handler
Response(op, status, detail) == [op |-> op, status |-> status, detail |-> detail]

\* Post(title=..., content=..., owner_id=...): the columns of models.Post
PostRow(id, title, content, owner_id) ==
    [id |-> id, title |-> title, content |-> content, owner_id |-> owner_id]

\* obj.name on a mapped class or one of its instances
getattr(obj, name) ==
    IF name \in DOMAIN obj
    THEN [raised |-> None, value |-> obj[name]]
    ELSE [raised |-> "AttributeError", value |-> None]

PostById(post_id) == {p \in Range(posts) : p.id = post_id}

\* The part of create_notification that changes state, as called from a
\* handler: see create_notification.
create_notification_call(message, user_id, outcome) ==
    IF outcome = "StoreError"
    THEN UNCHANGED <<notifications, appended, published, inbox>>
    ELSE /\ notifications' = Append(notifications,
                [id |-> Len(notifications) + 1, user_id |-> user_id, message |-> message])
         /\ appended' = Append(appended,
                [id |-> Len(appended) + 1, user_id |-> user_id, message |-> message])
         /\ IF outcome = "ok"
            THEN /\ published' = Append(published,
                        [channel |-> Channel(user_id), message |-> message])
                 /\ inbox' = redis_publish(inbox, Channel(user_id), message)
            ELSE UNCHANGED <<published, inbox>>

\* POST /register.  users.username and users.email are unique columns: the
\* commit of a row with a username that is taken raises IntegrityError, which
\* the handler does not catch.
register_user(username, email, password) ==
    /\ IF UserByEmail(email) # {}
       THEN /\ last' = Response("register", "400", "Email already registered")
            /\ UNCHANGED users
       ELSE IF \E u \in users : u.username = username
       THEN /\ last' = Response("register", "500", "IntegrityError")
            /\ UNCHANGED users
       ELSE /\ users' = users \cup
                   {[id |-> Cardinality(users) + 1, username |-> username,
                     email |-> email, hashed_password |-> hash_password(password),
                     role |-> "user"]}
            /\ last' = Response("register", "200", "User registered successfully")
    /\ UNCHANGED <<notifications, published, appended, active_connections, pc,
                   ws_user_id, inbox, sent, ws_closed, mgr_error, removals, deregs,
                   http_vars, session_vars>>

\* What GET /users/me answers to a bearer token.
read_users_me_response(token) ==
    LET payload == verify_access_token(token)
    IN  IF payload = None
        THEN Response("users/me", "401", "Invalid token")
        ELSE LET found == UserByEmail(payload)
             IN  IF found = {}
                 THEN Response("users/me", "404", "User not found")
                 ELSE LET user == CHOOSE u \in found : TRUE
                      IN  Response("users/me", "200",
                                   [username |-> user.username, email |-> user.email])

read_users_me(token) ==
    /\ last' = read_users_me_response(token)
    /\ UNCHANGED <<users, notifications, published, appended, active_connections,
                   pc, ws_user_id, inbox, sent, ws_closed, mgr_error, removals,
                   deregs, http_vars, session_vars>>

\* POST /posts
create_post(token, title, content) ==
    /\ LET payload == verify_access_token(token)
       IN  IF payload = None
           THEN /\ last' = Response("create_post", "401", "Invalid token")
                /\ UNCHANGED <<posts, post_seq>>
           ELSE LET found == UserByEmail(payload)
                IN  IF found = {}
                    THEN /\ last' = Response("create_post", "404", "User not found")
                         /\ UNCHANGED <<posts, post_seq>>
                    ELSE LET user == CHOOSE u \in found : TRUE
                         IN  /\ post_seq + 1 \in PostIds
                             /\ post_seq' = post_seq + 1
                             /\ posts' = Append(posts,
                                    PostRow(post_seq + 1, title, content, user.id))
                             /\ last' = Response("create_post", "200", post_seq + 1)
    /\ UNCHANGED <<users, notifications, published, appended, active_connections,
                   pc, ws_user_id, inbox, sent, ws_closed, mgr_error, removals,
                   deregs, comments, likes, followers, like_req, session_vars>>

\* POST /posts/{post_id}/comments: the comment is committed, then the
\* arguments of create_notification are evaluated, f"{user.email} commented
\* on your post" and post.user_id.
create_comment(token, post_id, content) ==
    /\ LET payload == verify_access_token(token)
           found == UserByEmail(payload)
           post == PostById(post_id)
           keep == UNCHANGED <<comments, notifications, appended, published, inbox>>
       IN  IF payload = None
           THEN last' = Response("create_comment", "401", "Invalid token") /\ keep
           ELSE IF found = {}
           THEN last' = Response("create_comment", "404", "User not found") /\ keep
           ELSE IF post = {}
           THEN last' = Response("create_comment", "404", "Post not found") /\ keep
           ELSE LET user == CHOOSE u \in found : TRUE
                    p == CHOOSE q \in post : TRUE
                    owner == getattr(p, "user_id")
                IN  /\ Len(comments) + 1 \in CommentIds
                    /\ comments' = Append(comments,
                           [id |-> Len(comments) + 1, content |-> content,
                            post_id |-> p.id, user_id |-> user.id])
                    /\ IF owner.raised # None
                       THEN /\ last' = Response("create_comment", "500", owner.raised)
                            /\ UNCHANGED <<notifications, appended, published, inbox>>
                       ELSE \E outcome \in {"StoreError", "PublishError", "ok"} :
                            /\ create_notification_call(
                                   user.email \o " commented on your post",
                                   owner.value, outcome)
                            /\ last' = Response("create_comment",
                                   IF outcome = "ok" THEN "200" ELSE "500", outcome)
    /\ UNCHANGED <<users, active_connections, pc, ws_user_id, sent, ws_closed,
                   mgr_error, removals, deregs, posts, post_seq, likes, followers,
                   like_req, session_vars>>

\* POST /posts/{post_id}/like, up to and including the query for an existing
\* like of the user for the post.  A request that passes goes on to
\* like_post_insert; r is the request, and requests are numbered as they come.
Inserting(r) == like_req[r].pc = "insert"

like_post_query(r, token, post_id) ==
    /\ like_req[r].pc = "idle"
    /\ \A q \in Reqs : q < r => like_req[q].pc # "idle"
    /\ LET payload == verify_access_token(token)
           found == UserByEmail(payload)
           post == PostById(post_id)
       IN  IF payload = None
           THEN last' = Response("like_post", "401", "Invalid token")
                /\ UNCHANGED like_req
           ELSE IF found = {}
           THEN last' = Response("like_post", "404", "User not found")
                /\ UNCHANGED like_req
           ELSE IF post = {}
           THEN last' = Response("like_post", "404", "Post not found")
                /\ UNCHANGED like_req
           ELSE LET user == CHOOSE u \in found : TRUE
                IN  IF \E l \in Range(likes) :
                          l.post_id = post_id /\ l.user_id = user.id
                    THEN last' = Response("like_post", "400",
                                          "You have already liked this post")
                         /\ UNCHANGED like_req
                    ELSE /\ Len(likes) + Cardinality({q \in Reqs : Inserting(q)})
                              < MaxLikes
                         /\ like_req' = [like_req EXCEPT ![r] =
                                [pc |-> "insert", post_id |-> post_id,
                                 user_id |-> user.id, email |-> user.email]]
                         /\ last' = NoOutcome
    /\ UNCHANGED <<users, notifications, published, appended, active_connections,
                   pc, ws_user_id, inbox, sent, ws_closed, mgr_error, removals,
                   deregs, posts, post_seq, comments, likes, followers,
                   session_vars>>

\* like_post from the insert of the new like on: the commit (which the
\* foreign key of likes.post_id fails when the post has been deleted
\* meanwhile), then the arguments of create_notification,
\* f"{user.email} liked your post" and post.user_id.
like_post_insert(r) ==
    /\ Inserting(r)
    /\ like_req' = [like_req EXCEPT ![r] = [pc |-> "idle"]]
    /\ LET req == like_req[r]
           post == PostById(req.post_id)
       IN  IF post = {}
           THEN /\ last' = Response("like_post", "500", "IntegrityError")
                /\ UNCHANGED <<likes, notifications, appended, published, inbox>>
           ELSE LET p == CHOOSE q \in post : TRUE
                    owner == getattr(p, "user_id")
                IN  /\ likes' = Append(likes,
                           [id |-> Len(likes) + 1, post_id |-> p.id,
                            user_id |-> req.user_id])
                    /\ IF owner.raised # None
                       THEN /\ last' = Response("like_post", "500", owner.raised)
                            /\ UNCHANGED <<notifications, appended, published, inbox>>
                       ELSE \E outcome \in {"StoreError", "PublishError", "ok"} :
                            /\ create_notification_call(
                                   req.email \o " liked your post",
                                   owner.value, outcome)
                            /\ last' = Response("like_post",
                                   IF outcome = "ok" THEN "200" ELSE "500",
                                   IF outcome = "ok" THEN "Post liked successfully"
                                   ELSE outcome)
    /\ UNCHANGED <<users, active_connections, pc, ws_user_id, sent, ws_closed,
                   mgr_error, removals, deregs, posts, post_seq, comments,
                   followers, session_vars>>

\* Variant: the handler goes on with the subject of a token that did not
\* verify.
follow_user_unverified(token, user_id) ==
    /\ LET follower == UserByEmail(token.sub)
           followed == {u \in users : u.id = user_id}
       IN  IF follower = {}
           THEN last' = Response("follow_user", "404", "Follower user not found")
                /\ UNCHANGED followers
           ELSE IF followed = {}
           THEN last' = Response("follow_user", "404", "Followed user not found")
                /\ UNCHANGED followers
           ELSE LET f == CHOOSE u \in follower : TRUE
                    edge == [follower_id |-> f.id, followed_id |-> user_id]
                IN  IF edge \in Range(followers)
                    THEN last' = Response("follow_user", "400",
                                          "You are already following this user")
                         /\ UNCHANGED followers
                    ELSE /\ Len(followers) + 1 \in FollowRows
                         /\ followers' = Append(followers, edge)
                         /\ last' = Response("follow_user", "200",
                                             "You are now following this user")
    /\ UNCHANGED <<users, notifications, published, appended, active_connections,
                   pc, ws_user_id, inbox, sent, ws_closed, mgr_error, removals,
                   deregs, posts, post_seq, comments, likes, like_req,
                   session_vars>>

\* POST /users/{user_id}/follow
follow_user(token, user_id) ==
    /\ LET payload == verify_access_token(token)
           follower == UserByEmail(payload)
           followed == {u \in users : u.id = user_id}
       IN  IF payload = None
           THEN last' = Response("follow_user", "401", "Invalid token")
                /\ UNCHANGED followers
           ELSE IF follower = {}
           THEN last' = Response("follow_user", "404", "Follower user not found")
                /\ UNCHANGED followers
           ELSE IF followed = {}
           THEN last' = Response("follow_user", "404", "Followed user not found")
                /\ UNCHANGED followers
           ELSE LET f == CHOOSE u \in follower : TRUE
                    edge == [follower_id |-> f.id, followed_id |-> user_id]
                IN  IF edge \in Range(followers)
                    THEN last' = Response("follow_user", "400",
                                          "You are already following this user")
                         /\ UNCHANGED followers
                    ELSE /\ Len(followers) + 1 \in FollowRows
                         /\ followers' = Append(followers, edge)
                         /\ last' = Response("follow_user", "200",
                                             "You are now following this user")
    /\ UNCHANGED <<users, notifications, published, appended, active_connections,
                   pc, ws_user_id, inbox, sent, ws_closed, mgr_error, removals,
                   deregs, posts, post_seq, comments, likes, like_req,
                   session_vars>>

\* DELETE /users/{user_id}/unfollow
unfollow_user(token, user_id) ==
    /\ LET payload == verify_access_token(token)
           follower == UserByEmail(payload)
       IN  IF payload = None
           THEN last' = Response("unfollow_user", "401", "Invalid token")
                /\ UNCHANGED followers
           ELSE IF follower = {}
           THEN last' = Response("unfollow_user", "404", "Follower user not found")
                /\ UNCHANGED followers
           ELSE LET f == CHOOSE u \in follower : TRUE
                    i == IndexOf(followers,
                            [follower_id |-> f.id, followed_id |-> user_id], 1)
                IN  IF i = 0
                    THEN last' = Response("unfollow_user", "404",
                                          "You are not following this user")
                         /\ UNCHANGED followers
                    ELSE /\ followers' = RemoveAt(followers, i)
                         /\ last' = Response("unfollow_user", "200",
                                             "You have unfollowed this user")
    /\ UNCHANGED <<users, notifications, published, appended, active_connections,
                   pc, ws_user_id, inbox, sent, ws_closed, mgr_error, removals,
                   deregs, posts, post_seq, comments, likes, like_req,
                   session_vars>>

\* GET /posts/following: the filter is built from Post.user_id.
get_following_posts(token) ==
    /\ LET payload == verify_access_token(token)
           found == UserByEmail(payload)
           column == getattr(PostRow(Null, Null, Null, Null), "user_id")
       IN  IF payload = None
           THEN last' = Response("get_following_posts", "401", "Invalid token")
           ELSE IF found = {}
           THEN last' = Response("get_following_posts", "404", "User not found")
           ELSE IF column.raised # None
           THEN last' = Response("get_following_posts", "500", column.raised)
           ELSE last' = Response("get_following_posts", "200", "posts")
    /\ UNCHANGED <<users, notifications, published, appended, active_connections,
                   pc, ws_user_id, inbox, sent, ws_closed, mgr_error, removals,
                   deregs, http_vars, session_vars>>

\* Variant: the dependency does not look at the role of the user.
admin_required_any_role(token) ==
    LET payload == verify_access_token(token)
        found == UserByEmail(payload)
    IN  IF payload = None
        THEN [status |-> "401", detail |-> "Invalid token"]
        ELSE IF found = {}
        THEN [status |-> "403", detail |-> "Not enough privileges"]
        ELSE [status |-> "200", detail |-> (CHOOSE u \in found : TRUE).id]

\* The dependency of the admin routes: the user of the token, or the
\* HTTPException it raises.
admin_required(token) ==
    LET payload == verify_access_token(token)
        found == UserByEmail(payload)
    IN  IF payload = None
        THEN [status |-> "401", detail |-> "Invalid token"]
        ELSE IF found = {} \/ (\A u \in found : u.role # "admin")
        THEN [status |-> "403", detail |-> "Not enough privileges"]
        ELSE [status |-> "200", detail |-> (CHOOSE u \in found : TRUE).id]

\* DELETE /admin/posts/{post_id}.  Post.comments and Post.likes are
\* relationships without a delete cascade: the session sets the post_id of
\* the comments and likes of a deleted post to NULL.
delete_post(token, post_id) ==
    /\ LET admin == admin_required(token)
           i == IndexOf([j \in DOMAIN posts |-> posts[j].id], post_id, 1)
           keep == UNCHANGED <<posts, comments, likes>>
       IN  IF admin.status # "200"
           THEN last' = Response("delete_post", admin.status, admin.detail) /\ keep
           ELSE IF i = 0
           THEN last' = Response("delete_post", "404", "Post not found") /\ keep
           ELSE /\ posts' = RemoveAt(posts, i)
                /\ comments' = [j \in DOMAIN comments |->
                       IF comments[j].post_id = post_id
                       THEN [comments[j] EXCEPT !.post_id = Null] ELSE comments[j]]
                /\ likes' = [j \in DOMAIN likes |->
                       IF likes[j].post_id = post_id
                       THEN [likes[j] EXCEPT !.post_id = Null] ELSE likes[j]]
                /\ last' = Response("delete_post", "200", "Post deleted successfully")
    /\ UNCHANGED <<users, notifications, published, appended, active_connections,
                   pc, ws_user_id, inbox, sent, ws_closed, mgr_error, removals,
                   deregs, post_seq, followers, like_req, session_vars>>

NextHttp ==
    \/ \E u \in Usernames, e \in RegEmails : register_user(u, e, "pw1")
    \/ \E t \in Tokens : read_users_me(t)
    \/ \E t \in Tokens : create_post(t, "title", "content")
    \/ \E t \in Tokens, p \in PostIds : create_comment(t, p, "content")
    \/ \E r \in Reqs, t \in Tokens, p \in PostIds : like_post_query(r, t, p)
    \/ \E r \in Reqs : like_post_insert(r)
    \/ \E t \in Tokens, u \in UserIds : follow_user(t, u)
    \/ \E t \in Tokens, u \in UserIds : unfollow_user(t, u)
    \/ \E t \in Tokens : get_following_posts(t)
    \/ \E t \in Tokens : get_notifications(t)
    \/ \E t \in Tokens, p \in PostIds : delete_post(t, p)

SpecHttp == Init /\ [][NextHttp]_vars

\* ------------------------------------------------------------ sessions
\* app.utils.create_access_token(data): a signed token with the entries of
\* data, the time of issue and an expiry one lifetime later.
create_access_token(data) ==
    [sub |-> data.sub, iat |-> now, exp |-> now + TokenTTL, sig |-> TRUE]

\* A token as verify_access_token finds it when it is presented now: ok when
\* the signature verifies and the clock is before the expiry.
AsBearer(token) ==
    [sub |-> token.sub, ok |-> token.sig /\ now < token.exp]

\* Variant: the token carries the username as its subject.
login_user_by_username(username, password) ==
    /\ LET found == {u \in users : u.username = username}
       IN  IF found = {} \/ \A u \in found : ~verify_password(password, u.hashed_password)
           THEN /\ last' = Response("login", "401", "Invalid credentials")
                /\ UNCHANGED issued
           ELSE LET user == CHOOSE u \in found : TRUE
                    access_token == create_access_token([sub |-> user.username])
                IN  /\ Cardinality(issued) < MaxIssued
                    /\ issued' = issued \cup
                           {[token |-> access_token, user_id |-> user.id]}
                    /\ last' = Response("login", "200", access_token)
    /\ UNCHANGED <<users, notifications, published, appended, active_connections,
                   pc, ws_user_id, inbox, sent, ws_closed, mgr_error, removals,
                   deregs, http_vars, now>>

\* POST /login
login_user(username, password) ==
    /\ LET found == {u \in users : u.username = username}
       IN  IF found = {} \/ \A u \in found : ~verify_password(password, u.hashed_password)
           THEN /\ last' = Response("login", "401", "Invalid credentials")
                /\ UNCHANGED issued
           ELSE LET user == CHOOSE u \in found : TRUE
                    access_token == create_access_token([sub |-> user.email])
                IN  /\ Cardinality(issued) < MaxIssued
                    /\ issued' = issued \cup
                           {[token |-> access_token, user_id |-> user.id]}
                    /\ last' = Response("login", "200", access_token)
    /\ UNCHANGED <<users, notifications, published, appended, active_connections,
                   pc, ws_user_id, inbox, sent, ws_closed, mgr_error, removals,
                   deregs, http_vars, now>>

\* Time passes.
tick ==
    /\ now < MaxTime
    /\ now' = now + 1
    /\ last' = NoOutcome
    /\ UNCHANGED <<users, notifications, published, appended, active_connections,
                   pc, ws_user_id, inbox, sent, ws_closed, mgr_error, removals,
                   deregs, http_vars, issued>>

\* Logins, the passing of time, and GET /users/me with a token that login
\* handed out or with such a token under a signature that does not verify.
NextSession ==
    \/ \E u \in Usernames, p \in Passwords : login_user(u, p)
    \/ tick
    \/ \E i \in issued, sig \in BOOLEAN :
          read_users_me(AsBearer([i.token EXCEPT !.sig = sig]))

SpecSession == Init /\ [][NextSession]_vars

\* ================================================================ claims
Pending(c, m) == \E i \in DOMAIN inbox[c] : inbox[c][i] = PublishedReply(m)
InSent(c, m) == \E i \in DOMAIN sent[c] : sent[c][i] = m
Registered(c) == pc[c] = "polling" /\ c \in Range(active_connections)
\* The client closed the websocket under a running handler.
ClientGone(c) == pc[c] = "polling" /\ ws_closed[c]

\* C1: every message published to a recipient's channel has a notification
\* row persisted for that recipient with that text: per recipient and text,
\* there are never more publishes than rows, so a notify whose commit fails
\* publishes nothing.
C1_PublishedArePersisted ==
    \A u \in UserIds, m \in Msgs :
        Cardinality({i \in DOMAIN published :
                        published[i] = [channel |-> Channel(u), message |-> m]})
          <= Cardinality({j \in DOMAIN notifications :
                        /\ notifications[j].user_id = u
                        /\ notifications[j].message = m})

\* A notify has just failed at the commit while an earlier one was published.
C1_Witness ==
    /\ last = Outcome("notify", "StoreError")
    /\ published # <<>>

\* C2: in every state, GET /notifications with a valid token of a user
\* answers 200 with exactly the rows of the committed notify calls for that
\* user, whatever became of their publish.
C2_PersistedAreListed ==
    \A t \in Tokens, u \in users :
        (t.ok /\ u.email = t.sub) =>
            \A r \in get_notifications_response(t) :
                LET committed == SelectSeq(appended, LAMBDA a : a.user_id = u.id)
                IN  /\ r.status = "200"
                    /\ Len(r.body) = Len(committed)
                    /\ Range(r.body) = Range(committed)

\* A list has just been served to a user for whom one notify was committed
\* while no websocket had ever been opened; its publish failed or reached
\* nobody.
C2_Witness ==
    /\ last = Outcome("list", "200")
    /\ Len(appended) = 1
    /\ \A c \in Conns : pc[c] = "new"
    /\ \E t \in Tokens :
          \E r \in get_notifications_response(t) : Len(r.body) = 1

\* C3: a message published while a connection is registered for its
\* recipient is eventually written to that connection (unless the client
\* leaves).
C3_LiveDelivery ==
    \A c \in Conns, m \in Msgs :
        (Registered(c) /\ Pending(c, m)) ~> (InSent(c, m) \/ ClientGone(c))

\* C4: with two connections registered for one recipient, a published
\* message is eventually written to each of them (unless its client leaves).
C4_BothDevicesReceive ==
    \A c \in Conns, d \in Conns, m \in Msgs :
        (/\ c # d
         /\ Registered(c) /\ Registered(d)
         /\ ws_user_id[c] = ws_user_id[d]
         /\ Pending(c, m) /\ Pending(d, m))
          ~> (/\ InSent(c, m) \/ ClientGone(c)
              /\ InSent(d, m) \/ ClientGone(d))

\* C5: a websocket is added to the registry and subscribed only when the
\* presented token verifies, and then to the channel of the user the token
\* names.
C5_RegisteredOnlyIfVerified ==
    [][\A c \in Conns, u \in UserIds, t \in WsTokens :
          (websocket_endpoint_connect(c, u, t)
             /\ (c \in Range(active_connections') \/ pc'[c] = "polling"))
          => /\ verify_access_token(t) # None
             /\ \E usr \in users : /\ usr.email = verify_access_token(t)
                                   /\ Channel(usr.id) = Channel(u)]_vars

\* C6: once a handler has been left, its state never changes again, nothing
\* more is written to its websocket and no publish queues anything for it.
C6_TerminatedIsFinal ==
    [][\A c \in Conns :
          pc[c] \in Exited =>
              /\ pc'[c] = pc[c]
              /\ sent'[c] = sent[c]
              /\ inbox'[c] = inbox[c]]_vars

\* A notify for the former channel of a handler that was left from its loop
\* has just been published without error.
C6_Witness ==
    \E c \in Conns :
        /\ pc[c] = "crashed"
        /\ last = Outcome("notify", "ok")
        /\ published[Len(published)].channel = Channel(ws_user_id[c])
        /\ inbox[c] = <<>>

\* C7: after the client of a registered connection has gone, the handler is
\* eventually left and the registry no longer holds the websocket.
C7_DisconnectLeadsToDeregistered ==
    \A c \in Conns :
        ClientGone(c)
          ~> (pc[c] \in Exited /\ c \notin Range(active_connections))

\* C8: when the transport of one connection has failed, every other
\* registered connection keeps receiving: a message pending for it is
\* eventually written to it (unless its own client leaves).
C8_OthersKeepReceiving ==
    \A c \in Conns, d \in Conns, m \in Msgs :
        (/\ c # d
         /\ ws_closed[c]
         /\ Registered(d) /\ ~ws_closed[d]
         /\ Pending(d, m))
          ~> (InSent(d, m) \/ ClientGone(d))

\* C9: disconnect for a websocket that was already removed raises nothing
\* and leaves the registry as it was.
C9_DeregisterIdempotent ==
    [][\A ws \in Conns :
          (manager_disconnect(ws) /\ removals[ws] >= 1)
          => /\ mgr_error' = None
             /\ active_connections' = active_connections]_vars

\* C10: the published messages that leave the queue of a connection whose
\* client is there are, in their order, exactly what is appended to the
\* texts written to it.
Texts(replies) ==
    LET msgs == SelectSeq(replies, LAMBDA r : r.type = "message")
    IN  [i \in DOMAIN msgs |-> msgs[i].data.v]

C10_WrittenEqualsPublished ==
    [][\A c \in Conns :
          (~ws_closed[c] /\ Len(inbox'[c]) < Len(inbox[c])) =>
              sent'[c] = sent[c] \o
                  Texts(SubSeq(inbox[c], 1, Len(inbox[c]) - Len(inbox'[c])))]_vars

\* C11: a message published for one recipient while a handler of another
\* recipient is running (idle, or with replies of its own pending) is
\* eventually written to the registered connection of its own recipient
\* (unless the client of that connection leaves).
C11_RecipientsIndependent ==
    \A a \in Conns, b \in Conns, m \in Msgs :
        (/\ a # b
         /\ pc[a] = "polling"
         /\ ws_user_id[a] # ws_user_id[b]
         /\ Registered(b) /\ Pending(b, m))
          ~> (InSent(b, m) \/ ClientGone(b))

\* C12: whatever is pending for a connection or was written to it is the
\* text of a notification created for the user id the connection is bound
\* to, and the binding of a connection never changes once it is made.
OwnRecipientOnly ==
    \A c \in Conns :
        /\ \A i \in DOMAIN inbox[c] :
              inbox[c][i].type = "message" =>
                  \E j \in DOMAIN appended :
                      /\ appended[j].user_id = ws_user_id[c]
                      /\ appended[j].message = inbox[c][i].data.v
        /\ \A i \in DOMAIN sent[c] :
              \E j \in DOMAIN appended :
                  /\ appended[j].user_id = ws_user_id[c]
                  /\ appended[j].message = sent[c][i]

C12_OnlyOwnRecipient ==
    [][/\ OwnRecipientOnly'
       /\ \A c \in Conns : pc[c] # "new" => ws_user_id'[c] = ws_user_id[c]]_vars

\* A message is pending for a connection while a notification for another
\* user has been published too.
C12_Witness ==
    \E c \in Conns, m \in Msgs :
        /\ Pending(c, m)
        /\ \E j \in DOMAIN published :
              published[j].channel # Channel(ws_user_id[c])

\* C13: a publish leaves the queue of every handler that has not subscribed
\* empty, and a handler that subscribes starts with no published message
\* pending, whatever was published on its channel before.
C13_NothingBuffered ==
    [][\A c \in Conns :
          /\ pc[c] = "new" /\ pc'[c] = "new" => inbox'[c] = <<>>
          /\ pc[c] = "new" /\ pc'[c] = "polling" =>
                \A i \in DOMAIN inbox'[c] : inbox'[c][i].type # "message"]_vars

\* A handler has subscribed after a notification for its user id had been
\* published without error: only the subscribe confirmation is pending.
C13_Witness ==
    \E c \in Conns :
        /\ pc[c] = "polling"
        /\ inbox[c] = <<SubscribeReply>>
        /\ \E j \in DOMAIN published :
              published[j].channel = Channel(ws_user_id[c])

\* C17: GET /notifications answers a user with the rows created for that
\* user in the order of their creation, and no step changes or removes a
\* row of the notifications table.
ListedInCreationOrder ==
    \A t \in Tokens, u \in users :
        (t.ok /\ u.email = t.sub) =>
            \A r \in get_notifications_response(t) :
                r.body = SelectSeq(appended, LAMBDA a : a.user_id = u.id)

C17_ListedInCreationOrder ==
    [][/\ ListedInCreationOrder'
       /\ Len(notifications') >= Len(notifications)
       /\ \A i \in DOMAIN notifications : notifications'[i] = notifications[i]]_vars

\* C18: the published messages pending for a handler never exceed the
\* capacity, and a publish that finds the queue of a handler full drops
\* the oldest pending message of that handler for the new one.
C18_QueueBounded ==
    [][\A c \in Conns :
          LET before == Texts(inbox[c])
              after == Texts(inbox'[c])
          IN  /\ Len(after) <= QueueCapacity
              /\ (/\ Len(published') > Len(published)
                  /\ subs(c) = published'[Len(published')].channel
                  /\ Len(before) = QueueCapacity)
                 => after = Tail(before) \o <<published'[Len(published')].message>>]_vars

C16_RegisterOutcome ==
    [][\A u \in Usernames, e \in RegEmails, p \in Passwords :
          register_user(u, e, p) =>
              IF UserByEmail(e) = {}
              THEN /\ last' = Response("register", "200", "User registered successfully")
                   /\ Cardinality(users') = Cardinality(users) + 1
                   /\ users \subseteq users'
                   /\ \E usr \in users' \ users :
                         usr.username = u /\ usr.email = e
              ELSE /\ last' = Response("register", "400", "Email already registered")
                   /\ users' = users]_vars

\* C19: while no like request is between its steps, the likes (comments) a
\* user has on the posts of an owner are matched, one for one, by persisted
\* notifications for that owner with the text "<email> liked your post"
\* ("<email> commented on your post").
NotificationsFor(owner_id, message) ==
    Cardinality({i \in DOMAIN notifications :
                    /\ notifications[i].user_id = owner_id
                    /\ notifications[i].message = message})

RowsOn(rows, actor_id, owner_id) ==
    Cardinality({i \in DOMAIN rows :
                    /\ rows[i].user_id = actor_id
                    /\ \E p \in Range(posts) :
                          p.id = rows[i].post_id /\ p.owner_id = owner_id})

C19_LikesAndCommentsNotified ==
    (\A r \in Reqs : ~Inserting(r)) =>
        \A actor \in users, owner \in users :
            /\ RowsOn(likes, actor.id, owner.id)
                 <= NotificationsFor(owner.id, actor.email \o " liked your post")
            /\ RowsOn(comments, actor.id, owner.id)
                 <= NotificationsFor(owner.id, actor.email \o " commented on your post")

\* C20: no user has more than one like on a post, and a like request of a
\* user who has a like on the post is answered 400 "You have already liked
\* this post" and starts neither a like nor a notification.
AtMostOneLike ==
    \A u \in users, p \in PostIds :
        Cardinality({i \in DOMAIN likes :
                        likes[i].user_id = u.id /\ likes[i].post_id = p}) <= 1

C20_OneLikePerUserAndPost ==
    [][/\ AtMostOneLike'
       /\ \A r \in Reqs, t \in Tokens, p \in PostIds :
             (/\ like_post_query(r, t, p)
              /\ PostById(p) # {}
              /\ \E u \in UserByEmail(verify_access_token(t)) :
                    \E l \in Range(likes) : l.post_id = p /\ l.user_id = u.id)
             => /\ last' = Response("like_post", "400",
                                    "You have already liked this post")
                /\ UNCHANGED <<likes, like_req, notifications, published>>]_vars

\* C15: a token that login handed out to a user expires after its issue,
\* and presenting it verifies to the email of that user, and GET /users/me
\* answers 200 with that email, at every time before its expiry; from the
\* expiry on it fails to verify and the answer is 401.
C15_ValidUntilExpiry ==
    \A i \in issued :
        LET user == CHOOSE u \in users : u.id = i.user_id
            bearer == AsBearer(i.token)
            r == read_users_me_response(bearer)
        IN  /\ i.token.exp > i.token.iat
            /\ IF now < i.token.exp
               THEN /\ verify_access_token(bearer) = user.email
                    /\ r.status = "200"
                    /\ r.detail.email = user.email
               ELSE /\ verify_access_token(bearer) = None
                    /\ r.status = "401"

\* GET /users/me has just been turned down for a token at its expiry, while
\* a token issued later is still good.
C15_Witness ==
    /\ last = Response("users/me", "401", "Invalid token")
    /\ \E i \in issued : now = i.token.exp
    /\ \E i \in issued : now < i.token.exp

\* C21: a step that removes a post is a delete request with a token that
\* verifies to the email of a user with the role admin; a delete request of
\* a user without that role is answered 403, one of an admin for a post that
\* does not exist 404, and both leave the posts as they are.
C21_OnlyAdminDeletes ==
    [][/\ (\E p \in Range(posts) : p \notin Range(posts')) =>
             \E t \in Tokens, id \in PostIds :
                 /\ delete_post(t, id)
                 /\ verify_access_token(t) # None
                 /\ \E u \in UserByEmail(verify_access_token(t)) : u.role = "admin"
       /\ \A t \in Tokens, id \in PostIds :
             (delete_post(t, id) /\ verify_access_token(t) # None) =>
                 LET u == CHOOSE usr \in users : usr.email = verify_access_token(t)
                 IN  /\ u.role # "admin" =>
                           /\ last' = Response("delete_post", "403",
                                               "Not enough privileges")
                           /\ posts' = posts
                     /\ (u.role = "admin" /\ PostById(id) = {}) =>
                           /\ last' = Response("delete_post", "404", "Post not found")
                           /\ posts' = posts]_vars

\* A delete request of a user without the admin role has just been turned
\* down while the post and a like on it are stored.
C21_Witness ==
    /\ last = Response("delete_post", "403", "Not enough privileges")
    /\ posts # <<>>
    /\ \E l \in Range(likes) : PostById(l.post_id) # {}

====
